---- MODULE Spec2Model ----
(***************************************************************************)
(* Timetable generation (backend/app/utils/timetable.py): the time-slot    *)
(* enumerator, the availability matrix, the candidate selection and the    *)
(* greedy batch/subject/slot loop of TimetableGenerator.generate_timetable. *)
(*                                                                         *)
(* Representation.  A date string "2024-01-dd" is the tuple <<2024,1,dd>>  *)
(* (all dates of the model lie in January 2024, whose 1st is a Monday); a  *)
(* time string "HH:MM" is the tuple <<HH,MM>>.  A datetime is the number   *)
(* of minutes since 2024-01-00 00:00, so that adding an hour to 23:00      *)
(* rolls over to the next day as datetime arithmetic does.  A record       *)
(* fetched from the database is a TLA+ record whose DOMAIN is the set of   *)
(* keys the document has; an id is str(_id).  A slot key, the f-string     *)
(* "<date>_<start_time>", is the pair <<date, start_time>>.                *)
(***************************************************************************)
EXTENDS Integers, Sequences, FiniteSets, TLC

\* ------------------------------------------------------------------ bounds
MaxClassrooms == 2
MaxCap == 2
MaxSpan == 3
MaxClassesPerWeek == 2

\* ------------------------------------------------------- program constants
SlotMinutes == 60
MinutesPerDay == 1440
DefaultClassesPerWeek == 2
DefaultMaxClassesPerDay == 6

WeekdayNames ==
    <<"Monday", "Tuesday", "Wednesday", "Thursday", "Friday", "Saturday", "Sunday">>

VARIABLES
    database_connected, \* db.database is set (connect_to_mongo has run)
    db_teachers,        \* the "teachers" collection, in natural order
    db_classrooms,      \* the "classrooms" collection
    db_subjects,        \* the "subjects" collection
    db_batches,         \* the "batches" collection
    request,            \* the TimetableRequest
    pc,                 \* position in generate_timetable
    batches, subjects, teachers, classrooms,   \* the fetched snapshots
    time_slots,
    schedule_matrix,
    timetable_slots,
    conflicts,          \* self.conflicts
    batch_idx,          \* position of the for-loop over batches (1-based)
    batch_subjects, subject_requirements, slot_index, batch_slots,
    subject_idx,        \* position of the for-loop over batch_subjects
    available_teachers, classes_needed, classes_assigned,
    result,             \* the returned pair (timetable_slots, conflicts)
    reservations,       \* history: every reservation made, in order
    attempt_log,        \* history: every call of _try_assign_slot, in order
    subject_log,        \* history: every subject loop, in order
    running,            \* which of two requests in flight the variables above belong to
    other,              \* the other request's call, suspended: its request and locals
    overlapped          \* history: a call was resumed or begun while the other was mid-call

inputs == <<database_connected, db_teachers, db_classrooms, db_subjects, db_batches, request>>
fetched == <<batches, subjects, teachers, classrooms>>
batch_locals == <<batch_subjects, subject_requirements, slot_index, batch_slots, subject_idx>>
subject_locals == <<available_teachers, classes_needed, classes_assigned>>
history == <<reservations, attempt_log, subject_log>>
calls == <<running, other, overlapped>>
vars == <<inputs, calls, pc, fetched, time_slots, schedule_matrix, timetable_slots, conflicts,
          batch_idx, batch_locals, subject_locals, result, history>>

Range(s) == {s[i] : i \in DOMAIN s}

\* dict.get(key, default)
Get(rec, key, default) == IF key \in DOMAIN rec THEN rec[key] ELSE default

\* -------------------------------------------------- dates and times
\* datetime.strptime(s, "%Y-%m-%d"), as a day number (the day of January 2024)
ParseDate(s) == s[3]
\* date.strftime("%Y-%m-%d")
FormatDate(d) == <<2024, 1, d>>
\* date.strftime("%A"); 2024-01-01 is a Monday
DayName(d) == WeekdayNames[((d - 1) % 7) + 1]
\* datetime.strptime(s, "%H:%M").time(), as minutes since midnight
ParseTime(s) == s[1] * 60 + s[2]
\* datetime.combine(date, time)
Combine(d, t) == d * MinutesPerDay + t
\* datetime.time()
TimeOf(dt) == dt % MinutesPerDay
\* datetime.strftime("%H:%M")
FormatTime(dt) == <<TimeOf(dt) \div 60, TimeOf(dt) % 60>>

\* ------------------------------------------------ _generate_time_slots
\* mutant: a slot that ends exactly at the window end is dropped
RECURSIVE day_slots_strict(_, _, _, _)
day_slots_strict(current_date, current_time, day_end, end_time) ==
    IF current_time < day_end
    THEN LET slot_end == current_time + SlotMinutes
             emitted == IF TimeOf(slot_end) < end_time
                        THEN << [date |-> FormatDate(current_date),
                                 day |-> DayName(current_date),
                                 start_time |-> FormatTime(current_time),
                                 end_time |-> FormatTime(slot_end)] >>
                        ELSE << >>
         IN emitted \o day_slots_strict(current_date, slot_end, day_end, end_time)
    ELSE << >>

\* the inner while loop over one working day
RECURSIVE day_slots(_, _, _, _)
day_slots(current_date, current_time, day_end, end_time) ==
    IF current_time < day_end
    THEN LET slot_end == current_time + SlotMinutes
             emitted == IF TimeOf(slot_end) <= end_time
                        THEN << [date |-> FormatDate(current_date),
                                 day |-> DayName(current_date),
                                 start_time |-> FormatTime(current_time),
                                 end_time |-> FormatTime(slot_end)] >>
                        ELSE << >>
         IN emitted \o day_slots(current_date, slot_end, day_end, end_time)
    ELSE << >>

\* mutant: the working-day filter is dropped
date_slots_any_day(req, current_date) ==
    LET start_time == ParseTime(req.start_time)
        end_time == ParseTime(req.end_time)
    IN day_slots(current_date, Combine(current_date, start_time),
                 Combine(current_date, end_time), end_time)

\* mutant: the first slot of a day starts break_duration minutes into the window
date_slots_after_break(req, current_date) ==
    IF DayName(current_date) \in req.working_days
    THEN LET start_time == ParseTime(req.start_time)
             end_time == ParseTime(req.end_time)
         IN day_slots(current_date, Combine(current_date, start_time) + req.break_duration,
                      Combine(current_date, end_time), end_time)
    ELSE << >>

\* the slots of one date: none unless its weekday name is a working day
date_slots(req, current_date) ==
    IF DayName(current_date) \in req.working_days
    THEN LET start_time == ParseTime(req.start_time)
             end_time == ParseTime(req.end_time)
         IN day_slots(current_date, Combine(current_date, start_time),
                      Combine(current_date, end_time), end_time)
    ELSE << >>

\* mutant: the slots of a date are put in front of those of the dates before it
RECURSIVE slots_from_latest_first(_, _, _)
slots_from_latest_first(req, current_date, end_date) ==
    IF current_date <= end_date
    THEN slots_from_latest_first(req, current_date + 1, end_date) \o date_slots(req, current_date)
    ELSE << >>

\* the outer while loop over the dates
RECURSIVE slots_from(_, _, _)
slots_from(req, current_date, end_date) ==
    IF current_date <= end_date
    THEN date_slots(req, current_date) \o slots_from(req, current_date + 1, end_date)
    ELSE << >>

generate_time_slots(req) ==
    slots_from(req, ParseDate(req.start_date), ParseDate(req.end_date))

\* ------------------------------------------- _initialize_schedule_matrix
initialize_schedule_matrix(time_slots_, teachers_, classrooms_) ==
    [teacher_schedule |-> [id \in {t.id : t \in Range(teachers_)} |-> {}],
     classroom_schedule |-> [id \in {c.id : c \in Range(classrooms_)} |-> {}]]

\* slot_key = f"{time_slot['date']}_{time_slot['start_time']}"
slot_key_of(time_slot) == <<time_slot.date, time_slot.start_time>>

\* ------------------------------------------------ _find_available_teachers
\* mutant: a teacher that lists no subject does not qualify
teacher_qualifies_listed_only(subject, teacher) ==
    subject.id \in Get(teacher, "subjects", {})

\* a teacher qualifies when it lists the subject or lists no subject at all
teacher_qualifies(subject, teacher) ==
    LET teacher_subjects == Get(teacher, "subjects", {})
    IN subject.id \in teacher_subjects \/ teacher_subjects = {}

\* mutant: every teacher of the roster is a candidate
find_available_teachers_whole_roster(subject, teachers_) == teachers_

\* mutant: no fallback to the first teacher of the roster
find_available_teachers_no_fallback(subject, teachers_) ==
    LET Qualifies(t) == teacher_qualifies(subject, t)
    IN SelectSeq(teachers_, Qualifies)

find_available_teachers(subject, teachers_) ==
    LET Qualifies(t) == teacher_qualifies(subject, t)
        available == SelectSeq(teachers_, Qualifies)
    IN IF available = << >>
       THEN (IF teachers_ = << >> THEN << >> ELSE << teachers_[1] >>)
       ELSE available

\* --------------------------------------- _find_available_teacher_for_slot
\* mutant: the occupied-key test is dropped, only the daily cap is checked
teacher_is_free_cap_only(teacher, time_slot, matrix) ==
    LET schedule == matrix.teacher_schedule[teacher.id]
        day_keys == {key \in schedule : key[1] = time_slot.date}
        max_classes == Get(teacher, "max_classes_per_day", DefaultMaxClassesPerDay)
    IN Cardinality(day_keys) < max_classes

\* mutant: the daily cap is compared with <= instead of <
teacher_is_free_off_by_one(teacher, time_slot, matrix) ==
    LET schedule == matrix.teacher_schedule[teacher.id]
        day_keys == {key \in schedule : key[1] = time_slot.date}
        max_classes == Get(teacher, "max_classes_per_day", DefaultMaxClassesPerDay)
    IN /\ slot_key_of(time_slot) \notin schedule
       /\ Cardinality(day_keys) <= max_classes

\* the condition under which the scan returns this teacher
teacher_is_free(teacher, time_slot, matrix) ==
    LET schedule == matrix.teacher_schedule[teacher.id]
        day_keys == {key \in schedule : key[1] = time_slot.date}
        max_classes == Get(teacher, "max_classes_per_day", DefaultMaxClassesPerDay)
    IN /\ slot_key_of(time_slot) \notin schedule
       /\ Cardinality(day_keys) < max_classes

\* mutant: the scan returns the last free teacher of the list
find_available_teacher_for_slot_last(teachers_, time_slot, matrix) ==
    LET free == {i \in DOMAIN teachers_ : teacher_is_free(teachers_[i], time_slot, matrix)}
    IN IF free = {} THEN 0 ELSE CHOOSE i \in free : \A j \in free : i >= j

\* mutant: the scan order depends on which request is being served
find_available_teacher_for_slot_by_call(teachers_, time_slot, matrix) ==
    LET free == {i \in DOMAIN teachers_ : teacher_is_free(teachers_[i], time_slot, matrix)}
    IN IF free = {} THEN 0
       ELSE IF running = 1 THEN CHOOSE i \in free : \A j \in free : i <= j
       ELSE CHOOSE i \in free : \A j \in free : i >= j

\* the position in teachers_ of the teacher returned, 0 for None
find_available_teacher_for_slot(teachers_, time_slot, matrix) ==
    LET free == {i \in DOMAIN teachers_ : teacher_is_free(teachers_[i], time_slot, matrix)}
    IN IF free = {} THEN 0 ELSE CHOOSE i \in free : \A j \in free : i <= j

\* ------------------------------------- _find_available_classroom_for_slot
\* mutant: the occupied-key test is dropped
classroom_is_free_always(classroom, time_slot, matrix) ==
    classroom.id \in DOMAIN matrix.classroom_schedule

classroom_is_free(classroom, time_slot, matrix) ==
    slot_key_of(time_slot) \notin matrix.classroom_schedule[classroom.id]

\* the position in classrooms_ of the classroom returned, 0 for None
find_available_classroom_for_slot(classrooms_, time_slot, matrix) ==
    LET free == {i \in DOMAIN classrooms_ : classroom_is_free(classrooms_[i], time_slot, matrix)}
    IN IF free = {} THEN 0 ELSE CHOOSE i \in free : \A j \in free : i <= j

\* --------------------------------------------------------- _try_assign_slot
\* f"No available <what> for {subject['name']} at {start_time} on {day}"
conflict_message(what, subject, time_slot) ==
    [text |-> what, subject |-> subject.name,
     start_time |-> time_slot.start_time, day |-> time_slot.day]

\* mutant: a row for the first section only
section_rows_first_only(batch, subject, teacher_id, classroom_id, time_slot) ==
    LET sections == Get(batch, "sections", <<"A">>)
    IN [k \in 1..(IF Len(sections) > 0 THEN 1 ELSE 0) |->
            [day |-> time_slot.day,
             start_time |-> time_slot.start_time,
             end_time |-> time_slot.end_time,
             subject_id |-> subject.id,
             teacher_id |-> teacher_id,
             classroom_id |-> classroom_id,
             batch_id |-> batch.id,
             section |-> sections[k]]]

\* the TimetableSlot rows of one reservation, one per section of the batch
section_rows(batch, subject, teacher_id, classroom_id, time_slot) ==
    LET sections == Get(batch, "sections", <<"A">>)
    IN [k \in 1..Len(sections) |->
            [day |-> time_slot.day,
             start_time |-> time_slot.start_time,
             end_time |-> time_slot.end_time,
             subject_id |-> subject.id,
             teacher_id |-> teacher_id,
             classroom_id |-> classroom_id,
             batch_id |-> batch.id,
             section |-> sections[k]]]

\* mutant: the key is not recorded
reserve_skipped(schedule, id, slot_key) == schedule

\* mutant: the occupied set is overwritten by the new key instead of extended
reserve_overwrites(schedule, id, slot_key) ==
    [schedule EXCEPT ![id] = {slot_key}]

\* schedule[id].add(slot_key)
reserve(schedule, id, slot_key) ==
    [schedule EXCEPT ![id] = @ \cup {slot_key}]

\* mutant: the teacher found free is marked before the classroom is looked for
try_assign_slot_marks_teacher_first(batch, subject, available, classrooms_, time_slot, matrix, slots, confl) ==
    LET unchanged == [error |-> "", assigned |-> FALSE, teacher_id |-> "", classroom_id |-> "",
                      schedule_matrix |-> matrix, batch_slots |-> slots, conflicts |-> confl]
        t == find_available_teacher_for_slot(available, time_slot, matrix)
        c == find_available_classroom_for_slot(classrooms_, time_slot, matrix)
        slot_key == slot_key_of(time_slot)
    IN IF t = 0
       THEN (IF "name" \in DOMAIN subject
             THEN [unchanged EXCEPT !.conflicts =
                       Append(confl, conflict_message("No available teacher", subject, time_slot))]
             ELSE [unchanged EXCEPT !.error = "'name'"])
       ELSE LET marked == [teacher_schedule |->
                               reserve(matrix.teacher_schedule, available[t].id, slot_key),
                           classroom_schedule |-> matrix.classroom_schedule]
            IN IF c = 0
               THEN (IF "name" \in DOMAIN subject
                     THEN [unchanged EXCEPT
                             !.schedule_matrix = marked,
                             !.conflicts = Append(confl,
                                 conflict_message("No available classroom", subject, time_slot))]
                     ELSE [unchanged EXCEPT !.error = "'name'"])
               ELSE [error |-> "", assigned |-> TRUE,
                     teacher_id |-> available[t].id, classroom_id |-> classrooms_[c].id,
                     schedule_matrix |->
                         [teacher_schedule |-> marked.teacher_schedule,
                          classroom_schedule |->
                              reserve(matrix.classroom_schedule, classrooms_[c].id, slot_key)],
                     batch_slots |->
                         slots \o section_rows(batch, subject, available[t].id,
                                               classrooms_[c].id, time_slot),
                     conflicts |-> confl]

\* mutant: the classroom is looked for before the teacher
try_assign_slot_classroom_first(batch, subject, available, classrooms_, time_slot, matrix, slots, confl) ==
    LET unchanged == [error |-> "", assigned |-> FALSE, teacher_id |-> "", classroom_id |-> "",
                      schedule_matrix |-> matrix, batch_slots |-> slots, conflicts |-> confl]
        t == find_available_teacher_for_slot(available, time_slot, matrix)
        c == find_available_classroom_for_slot(classrooms_, time_slot, matrix)
        slot_key == slot_key_of(time_slot)
    IN IF c = 0
       THEN (IF "name" \in DOMAIN subject
             THEN [unchanged EXCEPT !.conflicts =
                       Append(confl, conflict_message("No available classroom", subject, time_slot))]
             ELSE [unchanged EXCEPT !.error = "'name'"])
       ELSE IF t = 0
       THEN (IF "name" \in DOMAIN subject
             THEN [unchanged EXCEPT !.conflicts =
                       Append(confl, conflict_message("No available teacher", subject, time_slot))]
             ELSE [unchanged EXCEPT !.error = "'name'"])
       ELSE [error |-> "", assigned |-> TRUE,
             teacher_id |-> available[t].id, classroom_id |-> classrooms_[c].id,
             schedule_matrix |->
                 [teacher_schedule |->
                      reserve(matrix.teacher_schedule, available[t].id, slot_key),
                  classroom_schedule |->
                      reserve(matrix.classroom_schedule, classrooms_[c].id, slot_key)],
             batch_slots |->
                 slots \o section_rows(batch, subject, available[t].id,
                                       classrooms_[c].id, time_slot),
             conflicts |-> confl]

\* what one call does: the value returned (assigned), the exception raised if
\* any (error), and the matrix, batch_slots and self.conflicts it leaves
try_assign_slot(batch, subject, available, classrooms_, time_slot, matrix, slots, confl) ==
    LET unchanged == [error |-> "", assigned |-> FALSE, teacher_id |-> "", classroom_id |-> "",
                      schedule_matrix |-> matrix, batch_slots |-> slots, conflicts |-> confl]
        t == find_available_teacher_for_slot(available, time_slot, matrix)
        c == find_available_classroom_for_slot(classrooms_, time_slot, matrix)
    IN IF t = 0
       THEN (IF "name" \in DOMAIN subject
             THEN [unchanged EXCEPT !.conflicts =
                       Append(confl, conflict_message("No available teacher", subject, time_slot))]
             ELSE [unchanged EXCEPT !.error = "'name'"])
       ELSE IF c = 0
       THEN (IF "name" \in DOMAIN subject
             THEN [unchanged EXCEPT !.conflicts =
                       Append(confl, conflict_message("No available classroom", subject, time_slot))]
             ELSE [unchanged EXCEPT !.error = "'name'"])
       ELSE LET teacher_id == available[t].id
                classroom_id == classrooms_[c].id
                slot_key == slot_key_of(time_slot)
            IN [error |-> "", assigned |-> TRUE,
                teacher_id |-> teacher_id, classroom_id |-> classroom_id,
                schedule_matrix |->
                    [teacher_schedule |->
                         reserve(matrix.teacher_schedule, teacher_id, slot_key),
                     classroom_schedule |->
                         reserve(matrix.classroom_schedule, classroom_id, slot_key)],
                batch_slots |->
                    slots \o section_rows(batch, subject, teacher_id, classroom_id, time_slot),
                conflicts |-> confl]

\* ------------------------------------------------------ generate_timetable
\* mutant: the except branch returns what was scheduled so far
failure_result_partial(tslots, confl, error) ==
    [timetable_slots |-> tslots,
     conflicts |-> Append(confl, [text |-> "Failed to generate timetable", error |-> error])]

\* the except branch: the message appended and the pair returned
failure_result(tslots, confl, error) ==
    [timetable_slots |-> << >>,
     conflicts |-> Append(confl, [text |-> "Failed to generate timetable", error |-> error])]

\* the normal return
success_result(tslots, confl) ==
    [timetable_slots |-> tslots, conflicts |-> confl]

NoResult == [timetable_slots |-> << >>, conflicts |-> << >>]

\* an exception propagates to the except branch of generate_timetable
Raise(error) ==
    /\ conflicts' = failure_result(timetable_slots, conflicts, error).conflicts
    /\ result' = failure_result(timetable_slots, conflicts, error)
    /\ pc' = "failed"

\* mutant: a started week counts as a week
weeks_of_rounded_up(time_slots_) ==
    LET n == (Cardinality({time_slots_[i].date : i \in DOMAIN time_slots_}) + 6) \div 7
    IN IF n > 1 THEN n ELSE 1

\* weeks = max(1, len(set(slot["date"] for slot in time_slots)) // 7)
weeks_of(time_slots_) ==
    LET n == Cardinality({time_slots_[i].date : i \in DOMAIN time_slots_}) \div 7
    IN IF n > 1 THEN n ELSE 1

\* the four fetches; get_collection fails when no database is connected
FetchData ==
    /\ pc = "start"
    /\ IF ~database_connected
       THEN /\ Raise("'NoneType' object is not subscriptable")
            /\ UNCHANGED <<fetched, timetable_slots>>
       ELSE LET Requested(b) == b.id \in Range(request.batch_ids)
                found == SelectSeq(db_batches, Requested)
                subject_ids == UNION {Range(Get(found[i], "subjects", << >>)) : i \in DOMAIN found}
                Wanted(s) == s.id \in subject_ids
            IN /\ batches' = found
               /\ subjects' = SelectSeq(db_subjects, Wanted)
               /\ teachers' = db_teachers
               /\ classrooms' = db_classrooms
               /\ pc' = "fetched"
               /\ UNCHANGED <<conflicts, result, timetable_slots>>
    /\ UNCHANGED <<inputs, calls, time_slots, schedule_matrix, batch_idx, batch_locals,
                   subject_locals, history>>

GenerateTimeSlots ==
    /\ pc = "fetched"
    /\ time_slots' = generate_time_slots(request)
    /\ pc' = "slotted"
    /\ UNCHANGED <<inputs, calls, fetched, schedule_matrix, timetable_slots, conflicts, batch_idx,
                   batch_locals, subject_locals, result, history>>

InitializeScheduleMatrix ==
    /\ pc = "slotted"
    /\ schedule_matrix' = initialize_schedule_matrix(time_slots, teachers, classrooms)
    /\ batch_idx' = 1
    /\ pc' = "batches"
    /\ UNCHANGED <<inputs, calls, fetched, time_slots, timetable_slots, conflicts,
                   batch_locals, subject_locals, result, history>>

\* for batch in batches: the filter of line 38 and the set-up of
\* _generate_batch_timetable (requirements, slot_index = 0)
BeginBatch ==
    /\ pc = "batches"
    /\ batch_idx <= Len(batches)
    /\ LET batch == batches[batch_idx]
       IN IF "subjects" \notin DOMAIN batch
          THEN /\ Raise("'subjects'")
               /\ UNCHANGED <<batch_locals, timetable_slots>>
          ELSE LET Listed(s) == s.id \in Range(batch.subjects)
                   mine == SelectSeq(subjects, Listed)
               IN /\ batch_subjects' = mine
                  /\ subject_requirements' =
                        [id \in {s.id : s \in Range(mine)} |->
                            LET s == CHOOSE x \in Range(mine) : x.id = id
                            IN Get(s, "classes_per_week", DefaultClassesPerWeek)
                                   * weeks_of(time_slots)]
                  /\ slot_index' = 0
                  /\ batch_slots' = << >>
                  /\ subject_idx' = 1
                  /\ pc' = "subjects"
                  /\ UNCHANGED <<conflicts, result, timetable_slots>>
    /\ UNCHANGED <<inputs, calls, fetched, time_slots, schedule_matrix, batch_idx,
                   subject_locals, history>>

\* mutant: the cursor is reset for every subject
BeginSubject_resets_cursor ==
    /\ pc = "subjects"
    /\ subject_idx <= Len(batch_subjects)
    /\ LET subject == batch_subjects[subject_idx]
       IN /\ classes_needed' = subject_requirements[subject.id]
          /\ available_teachers' = find_available_teachers(subject, teachers)
    /\ classes_assigned' = 0
    /\ slot_index' = 0
    /\ pc' = "slots"
    /\ subject_log' = Append(subject_log,
            [batch_id |-> batches[batch_idx].id,
             subject_id |-> batch_subjects[subject_idx].id,
             needed |-> subject_requirements[batch_subjects[subject_idx].id],
             start_index |-> 0, end_index |-> 0,
             assigned |-> 0, finished |-> FALSE])
    /\ UNCHANGED <<inputs, calls, fetched, time_slots, schedule_matrix, timetable_slots, conflicts,
                   batch_idx, batch_subjects, subject_requirements, batch_slots, subject_idx,
                   result, reservations, attempt_log>>

\* for subject in subjects: candidates and classes_assigned = 0
BeginSubject ==
    /\ pc = "subjects"
    /\ subject_idx <= Len(batch_subjects)
    /\ LET subject == batch_subjects[subject_idx]
       IN /\ classes_needed' = subject_requirements[subject.id]
          /\ available_teachers' = find_available_teachers(subject, teachers)
    /\ classes_assigned' = 0
    /\ pc' = "slots"
    /\ subject_log' = Append(subject_log,
            [batch_id |-> batches[batch_idx].id,
             subject_id |-> batch_subjects[subject_idx].id,
             needed |-> subject_requirements[batch_subjects[subject_idx].id],
             start_index |-> slot_index, end_index |-> slot_index,
             assigned |-> 0, finished |-> FALSE])
    /\ UNCHANGED <<inputs, calls, fetched, time_slots, schedule_matrix, timetable_slots, conflicts,
                   batch_idx, batch_locals, result, reservations, attempt_log>>

\* mutant: every attempt counts toward the requirement
next_classes_assigned_always(count, assigned) == count + 1

\* if assigned: classes_assigned += 1
next_classes_assigned(count, assigned) == IF assigned THEN count + 1 ELSE count

\* mutant: the cursor stays on a slot that was assigned
next_slot_index_on_failure(index, assigned) == IF assigned THEN index ELSE index + 1

\* slot_index += 1, whatever the attempt returned
next_slot_index(index, assigned) == index + 1

\* one iteration of the while loop: one call of _try_assign_slot
Attempt ==
    /\ pc = "slots"
    /\ classes_assigned < classes_needed
    /\ slot_index < Len(time_slots)
    /\ LET batch == batches[batch_idx]
           subject == batch_subjects[subject_idx]
           time_slot == time_slots[slot_index + 1]
           r == try_assign_slot(batch, subject, available_teachers, classrooms, time_slot,
                                schedule_matrix, batch_slots, conflicts)
           entry == [batch_id |-> batch.id, subject_id |-> subject.id,
                     slot_index |-> slot_index, slot_key |-> slot_key_of(time_slot),
                     assigned |-> r.assigned, error |-> r.error,
                     teacher_id |-> r.teacher_id, classroom_id |-> r.classroom_id]
       IN /\ attempt_log' = Append(attempt_log, entry)
          /\ IF r.error # ""
             THEN /\ Raise(r.error)
                  /\ UNCHANGED <<schedule_matrix, batch_slots, classes_assigned, slot_index,
                                 reservations>>
             ELSE /\ schedule_matrix' = r.schedule_matrix
                  /\ batch_slots' = r.batch_slots
                  /\ conflicts' = r.conflicts
                  /\ classes_assigned' = next_classes_assigned(classes_assigned, r.assigned)
                  /\ slot_index' = next_slot_index(slot_index, r.assigned)
                  /\ reservations' = IF r.assigned THEN Append(reservations, entry)
                                     ELSE reservations
                  /\ UNCHANGED <<pc, result>>
    /\ UNCHANGED <<inputs, calls, fetched, time_slots, timetable_slots, batch_idx, batch_subjects,
                   subject_requirements, subject_idx, available_teachers, classes_needed,
                   subject_log>>

\* mutant: the subject is given up after an attempt for it has failed
EndSubject_gives_up ==
    /\ pc = "slots"
    /\ \/ ~(classes_assigned < classes_needed /\ slot_index < Len(time_slots))
       \/ /\ attempt_log # << >>
          /\ ~attempt_log[Len(attempt_log)].assigned
          /\ attempt_log[Len(attempt_log)].batch_id = batches[batch_idx].id
          /\ attempt_log[Len(attempt_log)].subject_id = batch_subjects[subject_idx].id
    /\ subject_idx' = subject_idx + 1
    /\ pc' = "subjects"
    /\ subject_log' = [subject_log EXCEPT ![Len(subject_log)] =
            [@ EXCEPT !.end_index = slot_index, !.assigned = classes_assigned,
                      !.finished = TRUE]]
    /\ UNCHANGED <<inputs, calls, fetched, time_slots, schedule_matrix, timetable_slots, conflicts,
                   batch_idx, batch_subjects, subject_requirements, slot_index, batch_slots,
                   subject_locals, result, reservations, attempt_log>>

\* mutant: an unmet requirement is reported when the subject loop ends
EndSubject_reports_shortfall ==
    /\ pc = "slots"
    /\ ~(classes_assigned < classes_needed /\ slot_index < Len(time_slots))
    /\ subject_idx' = subject_idx + 1
    /\ pc' = "subjects"
    /\ conflicts' = IF classes_assigned < classes_needed
                    THEN Append(conflicts, [text |-> "Unmet requirement",
                                            subject_id |-> batch_subjects[subject_idx].id])
                    ELSE conflicts
    /\ subject_log' = [subject_log EXCEPT ![Len(subject_log)] =
            [@ EXCEPT !.end_index = slot_index, !.assigned = classes_assigned,
                      !.finished = TRUE]]
    /\ UNCHANGED <<inputs, calls, fetched, time_slots, schedule_matrix, timetable_slots,
                   batch_idx, batch_subjects, subject_requirements, slot_index, batch_slots,
                   subject_locals, result, reservations, attempt_log>>

\* the while condition is false: on to the next subject
EndSubject ==
    /\ pc = "slots"
    /\ ~(classes_assigned < classes_needed /\ slot_index < Len(time_slots))
    /\ subject_idx' = subject_idx + 1
    /\ pc' = "subjects"
    /\ subject_log' = [subject_log EXCEPT ![Len(subject_log)] =
            [@ EXCEPT !.end_index = slot_index, !.assigned = classes_assigned,
                      !.finished = TRUE]]
    /\ UNCHANGED <<inputs, calls, fetched, time_slots, schedule_matrix, timetable_slots, conflicts,
                   batch_idx, batch_subjects, subject_requirements, slot_index, batch_slots,
                   subject_locals, result, reservations, attempt_log>>

\* mutant: the rows of a batch are put in front of those of earlier batches
EndBatch_prepends ==
    /\ pc = "subjects"
    /\ subject_idx > Len(batch_subjects)
    /\ timetable_slots' = batch_slots \o timetable_slots
    /\ batch_idx' = batch_idx + 1
    /\ pc' = "batches"
    /\ UNCHANGED <<inputs, calls, fetched, time_slots, schedule_matrix, conflicts, batch_locals,
                   subject_locals, result, history>>

\* return batch_slots; timetable_slots.extend(batch_slots)
EndBatch ==
    /\ pc = "subjects"
    /\ subject_idx > Len(batch_subjects)
    /\ timetable_slots' = timetable_slots \o batch_slots
    /\ batch_idx' = batch_idx + 1
    /\ pc' = "batches"
    /\ UNCHANGED <<inputs, calls, fetched, time_slots, schedule_matrix, conflicts, batch_locals,
                   subject_locals, result, history>>

\* return timetable_slots, self.conflicts
Return ==
    /\ pc = "batches"
    /\ batch_idx > Len(batches)
    /\ result' = success_result(timetable_slots, conflicts)
    /\ pc' = "done"
    /\ UNCHANGED <<inputs, calls, fetched, time_slots, schedule_matrix, timetable_slots, conflicts,
                   batch_idx, batch_locals, subject_locals, history>>

Next ==
    \/ FetchData
    \/ GenerateTimeSlots
    \/ InitializeScheduleMatrix
    \/ BeginBatch
    \/ BeginSubject
    \/ Attempt
    \/ EndSubject
    \/ EndBatch
    \/ Return

\* ------------------------------------------------------------------ inputs
TeacherIds == <<"t1", "t2">>
ClassroomIds == <<"r1", "r2", "r3", "r4">>

\* what a teacher document may hold: its subjects and its daily cap
TeacherChoices == [subjects : {{}, {"s1"}, {"s2"}}, cap : 1..MaxCap]

RosterOf(n, f) ==
    [i \in 1..n |-> [id |-> TeacherIds[i], name |-> TeacherIds[i],
                     subjects |-> f[i].subjects, max_classes_per_day |-> f[i].cap]]

Rosters == UNION {{RosterOf(n, f) : f \in [1..n -> TeacherChoices]} : n \in 0..Len(TeacherIds)}

ClassroomsOf(n) == [i \in 1..n |-> [id |-> ClassroomIds[i], room_number |-> ClassroomIds[i]]]

\* the subject collection; a document without "name" is a malformed record
SubjectsOf(cpw, named) ==
    << [id |-> "s1", name |-> "Math", classes_per_week |-> cpw],
       IF named THEN [id |-> "s2", name |-> "Physics", classes_per_week |-> cpw]
                ELSE [id |-> "s2", classes_per_week |-> cpw] >>

\* the batch collection; a document without "subjects" is a malformed record
BatchesOf(keyed) ==
    << [id |-> "b1", name |-> "B1", subjects |-> <<"s1", "s2">>,
        sections |-> <<"A", "B">>],
       IF keyed THEN [id |-> "b2", name |-> "B2", subjects |-> <<"s1">>, sections |-> <<"A">>]
                ELSE [id |-> "b2", name |-> "B2", sections |-> <<"A">>] >>

\* the batch collection with a section label entered twice in the second batch
BatchesRelabelled == [BatchesOf(TRUE) EXCEPT ![2].sections = <<"A", "A">>]

Faults == {"none", "no_name", "no_subjects", "db_down", "label_twice"}

RequestOf(ids, first, last, days, from, to) ==
    [batch_ids |-> ids, start_date |-> FormatDate(first), end_date |-> FormatDate(last),
     working_days |-> days, start_time |-> from, end_time |-> to, break_duration |-> 60]

\* requests of the allocation runs: one to four slots on one or two dates
Requests ==
    {RequestOf(ids, 15, w[1], {"Monday", "Tuesday"}, <<9, 0>>, w[2]) :
        ids \in {<<"b1">>, <<"b2">>, <<"b1", "b2">>},
        w \in {<<15, <<10, 0>>>>, <<15, <<11, 0>>>>, <<16, <<11, 0>>>>}}

\* requests of the enumerator runs: any range from Monday the 15th on, any window
EnumDays == 15..(15 + MaxSpan)
EnumTimes == {<<9, 0>>, <<9, 30>>, <<10, 0>>, <<11, 0>>, <<22, 0>>, <<23, 0>>, <<23, 30>>}
EnumWorkingDays ==
    {{}, {"Monday"}, {"Tuesday", "Thursday"}, {"Monday", "Tuesday", "Wednesday", "Thursday", "Friday"}}

EnumRequests ==
    {RequestOf(<<"b1">>, first, last, days, from, to) :
        first \in EnumDays, last \in EnumDays, days \in EnumWorkingDays,
        from \in EnumTimes, to \in EnumTimes}

\* the state at the entry of generate_timetable
Entry ==
    /\ pc = "start"
    /\ batches = << >> /\ subjects = << >> /\ teachers = << >> /\ classrooms = << >>
    /\ time_slots = << >>
    /\ schedule_matrix = [teacher_schedule |-> << >>, classroom_schedule |-> << >>]
    /\ timetable_slots = << >>
    /\ conflicts = << >>
    /\ batch_idx = 0
    /\ batch_subjects = << >> /\ subject_requirements = << >>
    /\ slot_index = 0 /\ batch_slots = << >> /\ subject_idx = 0
    /\ available_teachers = << >> /\ classes_needed = 0 /\ classes_assigned = 0
    /\ result = NoResult
    /\ reservations = << >> /\ attempt_log = << >> /\ subject_log = << >>

\* the call of a request whose handler has not yet been scheduled
IdleCall(req) ==
    [pc |-> "idle", request |-> req,
     batches |-> << >>, subjects |-> << >>, teachers |-> << >>, classrooms |-> << >>,
     time_slots |-> << >>,
     schedule_matrix |-> [teacher_schedule |-> << >>, classroom_schedule |-> << >>],
     timetable_slots |-> << >>, conflicts |-> << >>, batch_idx |-> 0,
     batch_subjects |-> << >>, subject_requirements |-> << >>, slot_index |-> 0,
     batch_slots |-> << >>, subject_idx |-> 0,
     available_teachers |-> << >>, classes_needed |-> 0, classes_assigned |-> 0,
     result |-> NoResult,
     reservations |-> << >>, attempt_log |-> << >>, subject_log |-> << >>]

Init ==
    /\ \E fault \in Faults, cpw \in 1..MaxClassesPerWeek :
          /\ database_connected = (fault # "db_down")
          /\ db_subjects = SubjectsOf(cpw, fault # "no_name")
          /\ db_batches = IF fault = "label_twice" THEN BatchesRelabelled
                          ELSE BatchesOf(fault # "no_subjects")
    /\ db_teachers \in Rosters
    /\ \E n \in 0..MaxClassrooms : db_classrooms = ClassroomsOf(n)
    /\ request \in Requests
    /\ running = 1 /\ other = IdleCall(request) /\ overlapped = FALSE
    /\ Entry

Spec == Init /\ [][Next]_vars

\* the enumerator alone: any request, after the fetch from an empty database
InitEnum ==
    /\ database_connected = TRUE
    /\ db_subjects = << >> /\ db_batches = << >> /\ db_teachers = << >> /\ db_classrooms = << >>
    /\ request \in EnumRequests
    /\ running = 1 /\ other = IdleCall(request) /\ overlapped = FALSE
    /\ pc = "fetched"
    /\ batches = << >> /\ subjects = << >> /\ teachers = << >> /\ classrooms = << >>
    /\ time_slots = << >>
    /\ schedule_matrix = [teacher_schedule |-> << >>, classroom_schedule |-> << >>]
    /\ timetable_slots = << >>
    /\ conflicts = << >>
    /\ batch_idx = 0
    /\ batch_subjects = << >> /\ subject_requirements = << >>
    /\ slot_index = 0 /\ batch_slots = << >> /\ subject_idx = 0
    /\ available_teachers = << >> /\ classes_needed = 0 /\ classes_assigned = 0
    /\ result = NoResult
    /\ reservations = << >> /\ attempt_log = << >> /\ subject_log = << >>

NextEnum == GenerateTimeSlots

SpecEnum == InitEnum /\ [][NextEnum]_vars

\* ------------------------------------------------- two requests in flight
\* mutant: one generator serves every request, so the call resumed finds in
\* self.conflicts what the call that ran meanwhile left there
generator_conflicts_shared(mine, current) == current

\* generator = TimetableGenerator(): each request has a generator of its
\* own, and the call resumed finds its own self.conflicts
generator_conflicts(mine, current) == mine

\* the running call as it is when the event loop leaves it
Suspended ==
    [pc |-> pc, request |-> request,
     batches |-> batches, subjects |-> subjects, teachers |-> teachers,
     classrooms |-> classrooms, time_slots |-> time_slots,
     schedule_matrix |-> schedule_matrix, timetable_slots |-> timetable_slots,
     conflicts |-> conflicts, batch_idx |-> batch_idx,
     batch_subjects |-> batch_subjects, subject_requirements |-> subject_requirements,
     slot_index |-> slot_index, batch_slots |-> batch_slots, subject_idx |-> subject_idx,
     available_teachers |-> available_teachers, classes_needed |-> classes_needed,
     classes_assigned |-> classes_assigned, result |-> result,
     reservations |-> reservations, attempt_log |-> attempt_log, subject_log |-> subject_log]

\* the event loop leaves the running call, which awaits its fetches or has
\* returned, and runs the other request's call
Switch ==
    /\ pc \in {"start", "done", "failed"}
    /\ other.pc \in {"idle", "start"}
    /\ other' = Suspended
    /\ running' = 3 - running
    /\ overlapped' = (overlapped \/ pc = "start")
    /\ pc' = other.pc
    /\ request' = other.request
    /\ batches' = other.batches /\ subjects' = other.subjects
    /\ teachers' = other.teachers /\ classrooms' = other.classrooms
    /\ time_slots' = other.time_slots
    /\ schedule_matrix' = other.schedule_matrix
    /\ timetable_slots' = other.timetable_slots
    /\ conflicts' = generator_conflicts(other.conflicts, conflicts)
    /\ batch_idx' = other.batch_idx
    /\ batch_subjects' = other.batch_subjects
    /\ subject_requirements' = other.subject_requirements
    /\ slot_index' = other.slot_index
    /\ batch_slots' = other.batch_slots
    /\ subject_idx' = other.subject_idx
    /\ available_teachers' = other.available_teachers
    /\ classes_needed' = other.classes_needed
    /\ classes_assigned' = other.classes_assigned
    /\ result' = other.result
    /\ reservations' = other.reservations
    /\ attempt_log' = other.attempt_log
    /\ subject_log' = other.subject_log
    /\ UNCHANGED <<database_connected, db_teachers, db_classrooms, db_subjects, db_batches>>

\* the handler of the request is entered: self.conflicts = [],
\* timetable_slots = []
Enter ==
    /\ pc = "idle"
    /\ pc' = "start"
    /\ conflicts' = << >>
    /\ timetable_slots' = << >>
    /\ UNCHANGED <<inputs, calls, fetched, time_slots, schedule_matrix, batch_idx, batch_locals,
                   subject_locals, result, history>>

NextTwo == Next \/ Switch \/ Enter

\* the rosters of the two-request runs: every teacher takes one class a day
TwoCallRosters == {r \in Rosters : \A i \in DOMAIN r : r[i].max_classes_per_day = 1}

\* the break_duration the second request may carry instead of the first's
OtherBreak == 15

\* two requests over one snapshot, equal or differing in break_duration only
InitTwo ==
    /\ \E fault \in {"none", "no_subjects"}, cpw \in 1..MaxClassesPerWeek :
          /\ database_connected = TRUE
          /\ db_subjects = SubjectsOf(cpw, TRUE)
          /\ db_batches = BatchesOf(fault # "no_subjects")
    /\ db_teachers \in TwoCallRosters
    /\ \E n \in 0..MaxClassrooms : db_classrooms = ClassroomsOf(n)
    /\ request \in Requests
    /\ running = 1 /\ overlapped = FALSE
    /\ \E b \in {request.break_duration, OtherBreak} :
          other = IdleCall([request EXCEPT !.break_duration = b])
    /\ Entry

SpecTwo == InitTwo /\ [][NextTwo]_vars

\* ------------------------------------------------------ ranges of weeks
\* the last date of the long ranges: one date short of a week, a week, one
\* date short of two weeks, two weeks
RangeEnds == {6, 7, 13, 14}

WorkingWeek == {"Monday", "Tuesday", "Wednesday", "Thursday", "Friday"}

\* requests from Monday the 1st on, one slot a day
WeekRequests ==
    {RequestOf(ids, 1, last, days, <<9, 0>>, <<10, 0>>) :
        ids \in {<<"b1">>, <<"b1", "b2">>}, last \in RangeEnds,
        days \in {Range(WeekdayNames), WorkingWeek}}

\* one call over a range of up to two weeks
InitWeeks ==
    /\ database_connected = TRUE
    /\ \E cpw \in 1..MaxClassesPerWeek : db_subjects = SubjectsOf(cpw, TRUE)
    /\ db_batches = BatchesOf(TRUE)
    /\ db_teachers \in TwoCallRosters
    /\ \E n \in 1..MaxClassrooms : db_classrooms = ClassroomsOf(n)
    /\ request \in WeekRequests
    /\ running = 1 /\ other = IdleCall(request) /\ overlapped = FALSE
    /\ Entry

SpecWeeks == InitWeeks /\ [][Next]_vars

\* ------------------------------------------------------------------ claims
ReservationsOfTeacher(id) == {i \in DOMAIN reservations : reservations[i].teacher_id = id}
ReservationsOfClassroom(id) == {i \in DOMAIN reservations : reservations[i].classroom_id = id}
KeysOnDate(keys, date) == {key \in keys : key[1] = date}

\* C1: within one call no teacher is reserved twice for the same slot key
\* (date, start_time): two distinct reservations never share teacher and key,
\* and the teacher's occupied set holds one key per reservation made for it.
NoTeacherDoubleBooking ==
    /\ \A i, j \in DOMAIN reservations :
          (i # j /\ reservations[i].teacher_id = reservations[j].teacher_id)
              => reservations[i].slot_key # reservations[j].slot_key
    /\ \A id \in DOMAIN schedule_matrix.teacher_schedule :
          /\ schedule_matrix.teacher_schedule[id] =
                 {reservations[i].slot_key : i \in ReservationsOfTeacher(id)}
          /\ Cardinality(schedule_matrix.teacher_schedule[id]) =
                 Cardinality(ReservationsOfTeacher(id))

\* C1 witness: a second batch met a teacher occupied at a key and got another one
TeacherBusyElsewhere ==
    \E i, j \in DOMAIN reservations :
        /\ i < j
        /\ reservations[i].slot_key = reservations[j].slot_key
        /\ reservations[i].batch_id # reservations[j].batch_id
        /\ reservations[i].teacher_id # reservations[j].teacher_id

\* C2: within one call no classroom is reserved twice for the same slot key,
\* also across batches, and the classroom's occupied set holds one key per
\* reservation made for it.
NoClassroomDoubleBooking ==
    /\ \A i, j \in DOMAIN reservations :
          (i # j /\ reservations[i].classroom_id = reservations[j].classroom_id)
              => reservations[i].slot_key # reservations[j].slot_key
    /\ \A id \in DOMAIN schedule_matrix.classroom_schedule :
          /\ schedule_matrix.classroom_schedule[id] =
                 {reservations[i].slot_key : i \in ReservationsOfClassroom(id)}
          /\ Cardinality(schedule_matrix.classroom_schedule[id]) =
                 Cardinality(ReservationsOfClassroom(id))

\* C2 witness: two batches hold different classrooms at the same slot key
ClassroomBusyElsewhere ==
    \E i, j \in DOMAIN reservations :
        /\ i < j
        /\ reservations[i].slot_key = reservations[j].slot_key
        /\ reservations[i].batch_id # reservations[j].batch_id
        /\ reservations[i].classroom_id # reservations[j].classroom_id

\* C3: in every state, for every teacher and every date, the number of keys
\* of that date in the teacher's occupied set is at most the teacher's
\* max_classes_per_day.
DailyCapRespected ==
    \A t \in Range(teachers) :
        t.id \in DOMAIN schedule_matrix.teacher_schedule =>
            \A key \in schedule_matrix.teacher_schedule[t.id] :
                Cardinality(KeysOnDate(schedule_matrix.teacher_schedule[t.id], key[1]))
                    <= t.max_classes_per_day

\* C3 witness: an attempt failed at a slot where a candidate teacher was not
\* occupied but had reached its cap on the slot's date
TeacherAtCapSkipped ==
    \E i \in DOMAIN attempt_log : \E t \in Range(teachers) :
        /\ ~attempt_log[i].assigned
        /\ t.id \in DOMAIN schedule_matrix.teacher_schedule
        /\ attempt_log[i].slot_key \notin schedule_matrix.teacher_schedule[t.id]
        /\ Cardinality(KeysOnDate(schedule_matrix.teacher_schedule[t.id],
                                  attempt_log[i].slot_key[1])) = t.max_classes_per_day

\* C4: a successful assignment for a batch with N sections appends exactly N
\* rows, one per section in the order of batch.sections, all with the same
\* subject, teacher, classroom, day, start and end time, and adds the slot's
\* key to exactly one teacher's and exactly one classroom's occupied set.
SectionFanOut ==
    [][(pc = "slots" /\ classes_assigned' = classes_assigned + 1) =>
        LET batch == batches[batch_idx]
            n == Len(batch.sections)
            old == Len(batch_slots)
            slot == time_slots[slot_index + 1]
            key == <<slot.date, slot.start_time>>
            ts == schedule_matrix.teacher_schedule
            cs == schedule_matrix.classroom_schedule
        IN /\ Len(batch_slots') = old + n
           /\ SubSeq(batch_slots', 1, old) = batch_slots
           /\ \E t \in DOMAIN ts : \E c \in DOMAIN cs :
                 /\ key \notin ts[t] /\ key \notin cs[c]
                 /\ schedule_matrix'.teacher_schedule = [ts EXCEPT ![t] = @ \cup {key}]
                 /\ schedule_matrix'.classroom_schedule = [cs EXCEPT ![c] = @ \cup {key}]
                 /\ \A k \in 1..n :
                       batch_slots'[old + k] =
                           [day |-> slot.day, start_time |-> slot.start_time,
                            end_time |-> slot.end_time,
                            subject_id |-> batch_subjects[subject_idx].id,
                            teacher_id |-> t, classroom_id |-> c,
                            batch_id |-> batch.id, section |-> batch.sections[k]]
      ]_vars

\* C4 witness: one successful assignment of a two-section batch left two rows
TwoSectionRows ==
    /\ pc = "slots"
    /\ classes_assigned = 1
    /\ Len(batches[batch_idx].sections) = 2
    /\ Len(batch_slots) = 2
    /\ batch_slots[1].section = "A" /\ batch_slots[2].section = "B"

\* the subject whose loop is running
CurrentSubject == batch_subjects[subject_idx]
SomeTeacherLists(subject) == \E t \in Range(teachers) : subject.id \in t.subjects
SomeTeacherListsNothing == \E t \in Range(teachers) : t.subjects = {}

\* C5 as stated: whenever no teacher's subject set includes the subject and
\* the roster is non-empty, the first roster teacher is among the candidates.
FirstTeacherWhenNobodyLists ==
    (pc = "slots" /\ teachers # << >> /\ ~SomeTeacherLists(CurrentSubject))
        => teachers[1] \in Range(available_teachers)

\* C5 amended: when no teacher lists the subject and no teacher has an empty
\* subjects list, and the roster is non-empty, the candidates are exactly the
\* first roster teacher; with a non-empty roster the candidate list is never
\* empty (nobody listing the subject does not by itself make a conflict).
FallbackTeacher ==
    pc = "slots" =>
        /\ (teachers # << >> /\ ~SomeTeacherLists(CurrentSubject) /\ ~SomeTeacherListsNothing)
               => available_teachers = << teachers[1] >>
        /\ teachers # << >> => available_teachers # << >>

\* C5 witness: the fallback teacher was reserved for a subject nobody can teach
FallbackTeacherReserved ==
    /\ pc = "slots"
    /\ teachers # << >>
    /\ ~SomeTeacherLists(CurrentSubject) /\ ~SomeTeacherListsNothing
    /\ classes_assigned >= 1
    /\ reservations[Len(reservations)].teacher_id = teachers[1].id

FailedAttempts == {i \in DOMAIN attempt_log : ~attempt_log[i].assigned}

\* C6: a subject that needs more classes than there are slots left at the
\* cursor ends with fewer assignments than required, and nothing is appended
\* for the shortfall: in a call that is not aborted the number of conflict
\* messages equals the number of failed attempts, also in the pair returned.
ShortfallIsSilent ==
    /\ pc # "failed" => Len(conflicts) = Cardinality(FailedAttempts)
    /\ pc = "done" => Len(result.conflicts) = Cardinality(FailedAttempts)
    /\ \A i \in DOMAIN subject_log :
          (subject_log[i].finished
             /\ subject_log[i].needed > Len(time_slots) - subject_log[i].start_index)
          => subject_log[i].assigned < subject_log[i].needed

\* C6 witness: a call returned with a subject short of classes, every attempt
\* made having succeeded, and an empty conflict list
SilentShortfallReturned ==
    /\ pc = "done"
    /\ result.conflicts = << >>
    /\ reservations # << >>
    /\ \E i \in DOMAIN subject_log :
          /\ subject_log[i].needed > Len(time_slots) - subject_log[i].start_index
          /\ subject_log[i].assigned < subject_log[i].needed

\* C7: an aborted call returns an empty list of scheduled entries, whatever
\* had been scheduled before the failure.
AbortReturnsNoEntries ==
    pc = "failed" => result.timetable_slots = << >>

\* C7 witness: the failure came after a batch had been processed and its rows
\* added to timetable_slots
AbortAfterScheduledBatch ==
    /\ pc = "failed"
    /\ timetable_slots # << >>

\* C8: an aborted call returns exactly one conflict message, the description
\* of the failure.
AbortReturnsOneMessage ==
    pc = "failed" => Len(result.conflicts) = 1

\* C9: every slot emitted lies inside the daily window on its own date: it
\* starts no earlier than the window start, ends after it starts, and its
\* end does not exceed the window end, for every window with start < end.
SlotsInsideWindow ==
    (pc = "slotted" /\ ParseTime(request.start_time) < ParseTime(request.end_time)) =>
        \A i \in DOMAIN time_slots :
            /\ ParseTime(request.start_time) <= ParseTime(time_slots[i].start_time)
            /\ ParseTime(time_slots[i].start_time) < ParseTime(time_slots[i].end_time)
            /\ ParseTime(time_slots[i].end_time) <= ParseTime(request.end_time)

\* C10: no slot is emitted for a date whose weekday name is not a working day,
\* none for a date outside [start_date, end_date], and none at all for an
\* inverted range.
OnlyWorkingDaysInRange ==
    pc = "slotted" =>
        /\ \A i \in DOMAIN time_slots :
              /\ time_slots[i].day \in request.working_days
              /\ time_slots[i].day = WeekdayNames[((time_slots[i].date[3] - 1) % 7) + 1]
              /\ request.start_date[3] <= time_slots[i].date[3]
              /\ time_slots[i].date[3] <= request.end_date[3]
        /\ request.end_date[3] < request.start_date[3] => time_slots = << >>

\* C10 witness: slots were emitted for a range that also holds a date that is
\* not a working day
NonWorkingDaySkipped ==
    /\ pc = "slotted"
    /\ time_slots # << >>
    /\ \E d \in request.start_date[3]..request.end_date[3] :
          WeekdayNames[((d - 1) % 7) + 1] \notin request.working_days

\* the position in the fetched batch list of the first batch with this id, 0 if none
PositionOfBatch(id) ==
    IF \E i \in DOMAIN batches : batches[i].id = id
    THEN CHOOSE i \in DOMAIN batches : batches[i].id = id /\ \A j \in 1..(i - 1) : batches[j].id # id
    ELSE 0

\* the position in processing order of a (batch, subject) pass
PositionOfPass(batch_id, subject_id) ==
    CHOOSE i \in DOMAIN subject_log :
        subject_log[i].batch_id = batch_id /\ subject_log[i].subject_id = subject_id

\* the rows a logged reservation stands for: one per section of its batch, at
\* the slot the cursor was on
RowsOfReservation(r) ==
    LET batch == batches[PositionOfBatch(r.batch_id)]
        sections == Get(batch, "sections", <<"A">>)
        time_slot == time_slots[r.slot_index + 1]
    IN [k \in 1..Len(sections) |->
            [day |-> time_slot.day, start_time |-> time_slot.start_time,
             end_time |-> time_slot.end_time, subject_id |-> r.subject_id,
             teacher_id |-> r.teacher_id, classroom_id |-> r.classroom_id,
             batch_id |-> r.batch_id, section |-> sections[k]]]

RECURSIVE RowsOfReservations(_)
RowsOfReservations(log) ==
    IF log = << >> THEN << >>
    ELSE RowsOfReservation(Head(log)) \o RowsOfReservations(Tail(log))

\* the attempts of the log that failed without raising, in the order made
FailedAttemptsInOrder == SelectSeq(attempt_log, LAMBDA a : ~a.assigned /\ a.error = "")

\* the reservations are in batch order, then subject order, then slot order
ReservationsInProcessingOrder ==
    \A i, j \in DOMAIN reservations :
        i < j =>
            LET a == reservations[i]
                b == reservations[j]
            IN /\ PositionOfBatch(a.batch_id) <= PositionOfBatch(b.batch_id)
               /\ a.batch_id = b.batch_id =>
                     /\ PositionOfPass(a.batch_id, a.subject_id)
                            <= PositionOfPass(b.batch_id, b.subject_id)
                     /\ a.slot_index < b.slot_index

\* C13: the entries returned are the rows of the reservations in the order
\* the reservations were made (batch order, then subject order, then slot
\* order), the rows of one reservation side by side; the conflicts returned
\* are one per failed attempt, in the order the attempts failed.
OutputInProcessingOrder ==
    pc = "done" =>
        /\ ReservationsInProcessingOrder
        /\ result.timetable_slots = RowsOfReservations(reservations)
        /\ Len(result.conflicts) = Len(FailedAttemptsInOrder)
        /\ \A i \in DOMAIN result.conflicts :
              LET a == FailedAttemptsInOrder[i]
              IN /\ result.conflicts[i].start_time = time_slots[a.slot_index + 1].start_time
                 /\ result.conflicts[i].day = time_slots[a.slot_index + 1].day
                 /\ \E k \in DOMAIN subjects :
                       /\ subjects[k].id = a.subject_id
                       /\ subjects[k].name = result.conflicts[i].subject

\* C13 witness: a call returned rows of two batches, one of them with two
\* sections, and conflicts of two different attempts
TwoBatchesAndConflictsReturned ==
    /\ pc = "done"
    /\ \E i, j \in DOMAIN result.timetable_slots :
          /\ i < j
          /\ result.timetable_slots[i].batch_id # result.timetable_slots[j].batch_id
    /\ \E i \in DOMAIN result.timetable_slots : result.timetable_slots[i].section = "B"
    /\ \E i, j \in DOMAIN result.conflicts : result.conflicts[i] # result.conflicts[j]

\* C15: within a batch the cursor starts at the first slot and is carried
\* from subject to subject: the first attempt of a batch is at index 0 and
\* every later attempt of the batch, whatever its subject, is at the index
\* after that of the attempt before it; the index a subject starts from is
\* the one the previous subject of the batch stopped at.
CursorCarriedAcrossSubjects ==
    /\ \A i \in DOMAIN attempt_log :
          IF i = 1 \/ attempt_log[i - 1].batch_id # attempt_log[i].batch_id
          THEN attempt_log[i].slot_index = 0
          ELSE attempt_log[i].slot_index = attempt_log[i - 1].slot_index + 1
    /\ \A i \in DOMAIN subject_log :
          IF i = 1 \/ subject_log[i - 1].batch_id # subject_log[i].batch_id
          THEN subject_log[i].start_index = 0
          ELSE subject_log[i].start_index = subject_log[i - 1].end_index

\* C15 witness: the first attempt for the second subject of a batch was made
\* at an index past the first slot, right after the last attempt for the
\* first subject
SecondSubjectContinued ==
    \E i \in DOMAIN attempt_log :
        /\ i > 1
        /\ attempt_log[i - 1].batch_id = attempt_log[i].batch_id
        /\ attempt_log[i - 1].subject_id # attempt_log[i].subject_id
        /\ attempt_log[i].slot_index > 0

\* the attempts logged for the batch being processed
AttemptsOfCurrentBatch(assigned) ==
    {i \in DOMAIN attempt_log :
        /\ attempt_log[i].batch_id = batches[batch_idx].id
        /\ attempt_log[i].error = ""
        /\ attempt_log[i].assigned = assigned}

\* C16: during a batch pass the cursor equals the number of attempts of the
\* pass that succeeded plus the number that failed, and does not exceed the
\* number of slots.
CursorCountsAttempts ==
    pc \in {"subjects", "slots"} =>
        /\ slot_index = Cardinality(AttemptsOfCurrentBatch(TRUE))
                        + Cardinality(AttemptsOfCurrentBatch(FALSE))
        /\ slot_index <= Len(time_slots)

\* C16 witness: a batch pass with a successful and a failed attempt behind it
CursorPastSuccessAndFailure ==
    /\ pc \in {"subjects", "slots"}
    /\ AttemptsOfCurrentBatch(TRUE) # {}
    /\ AttemptsOfCurrentBatch(FALSE) # {}

\* the attempts logged for one subject of one batch
AttemptsOfPass(batch_id, subject_id) ==
    {i \in DOMAIN attempt_log :
        attempt_log[i].batch_id = batch_id /\ attempt_log[i].subject_id = subject_id}

\* C17: the classes counted for a subject are exactly its successful attempts
\* and never more than required; a subject that is finished has the required
\* number or the cursor at the end of the slot sequence, and the cursor is
\* still there when the batch pass ends.
AssignedOnlyOnSuccess ==
    /\ pc = "slots" =>
          /\ classes_assigned <= classes_needed
          /\ classes_assigned =
                Cardinality({i \in AttemptsOfPass(batches[batch_idx].id,
                                                  batch_subjects[subject_idx].id) :
                                 attempt_log[i].assigned})
    /\ \A k \in DOMAIN subject_log :
          subject_log[k].finished =>
              /\ subject_log[k].assigned <= subject_log[k].needed
              /\ subject_log[k].assigned =
                    Cardinality({i \in AttemptsOfPass(subject_log[k].batch_id,
                                                      subject_log[k].subject_id) :
                                     attempt_log[i].assigned})
              /\ \/ subject_log[k].assigned = subject_log[k].needed
                 \/ subject_log[k].end_index = Len(time_slots)
    /\ (pc = "subjects" /\ subject_idx > Len(batch_subjects)) =>
          \A k \in DOMAIN subject_log :
              (subject_log[k].batch_id = batches[batch_idx].id
               /\ subject_log[k].assigned < subject_log[k].needed)
                  => slot_index = Len(time_slots)

\* C17 witness: at the end of a batch pass one subject has the required
\* number after an attempt that failed, and another is short with the slots
\* used up
RequirementMetAfterFailure ==
    /\ pc = "subjects"
    /\ subject_idx > Len(batch_subjects)
    /\ \E k \in DOMAIN subject_log :
          /\ subject_log[k].finished
          /\ subject_log[k].assigned = subject_log[k].needed
          /\ \E i \in AttemptsOfPass(subject_log[k].batch_id, subject_log[k].subject_id) :
                ~attempt_log[i].assigned
    /\ \E k \in DOMAIN subject_log :
          /\ subject_log[k].finished
          /\ subject_log[k].assigned < subject_log[k].needed

\* the step is one attempt; LastAttempt is the entry it logged
IsAttemptStep == pc = "slots" /\ Len(attempt_log') = Len(attempt_log) + 1

LastAttempt == attempt_log'[Len(attempt_log')]

\* a candidate teacher is free at the slot under the cursor
SomeCandidateFree ==
    \E i \in DOMAIN available_teachers :
        teacher_is_free(available_teachers[i], time_slots[slot_index + 1], schedule_matrix)

\* a classroom is free at the slot under the cursor
SomeClassroomFree ==
    \E i \in DOMAIN classrooms :
        classroom_is_free(classrooms[i], time_slots[slot_index + 1], schedule_matrix)

\* C18: an attempt that does not assign leaves every teacher's and every
\* classroom's occupied set and the rows of the batch as they were, also
\* when a teacher was free and only the classroom was missing.
FailedAttemptChangesNothing ==
    [][(IsAttemptStep /\ ~LastAttempt.assigned) =>
           /\ schedule_matrix' = schedule_matrix
           /\ batch_slots' = batch_slots]_vars

\* C18 witness: the last attempt failed for want of a classroom while a
\* candidate teacher is free at its slot
TeacherFreeButNoClassroom ==
    /\ pc = "slots"
    /\ attempt_log # << >>
    /\ conflicts # << >>
    /\ LET a == attempt_log[Len(attempt_log)]
       IN /\ ~a.assigned
          /\ a.slot_index + 1 = slot_index
          /\ conflicts[Len(conflicts)].text = "No available classroom"
          /\ \E i \in DOMAIN available_teachers :
                teacher_is_free(available_teachers[i], time_slots[a.slot_index + 1],
                                schedule_matrix)

\* C19: no step removes a key from an occupied set, and every reservation
\* made so far in the call, for whatever batch, is still in the set of its
\* teacher and of its classroom.
OccupiedSetsOnlyGrow ==
    [][/\ \A id \in DOMAIN schedule_matrix.teacher_schedule :
             /\ id \in DOMAIN schedule_matrix'.teacher_schedule
             /\ schedule_matrix.teacher_schedule[id] \subseteq schedule_matrix'.teacher_schedule[id]
       /\ \A id \in DOMAIN schedule_matrix.classroom_schedule :
             /\ id \in DOMAIN schedule_matrix'.classroom_schedule
             /\ schedule_matrix.classroom_schedule[id]
                    \subseteq schedule_matrix'.classroom_schedule[id]
       /\ \A i \in DOMAIN reservations' :
             /\ reservations'[i].slot_key
                    \in schedule_matrix'.teacher_schedule[reservations'[i].teacher_id]
             /\ reservations'[i].slot_key
                    \in schedule_matrix'.classroom_schedule[reservations'[i].classroom_id]]_vars

\* C19 witness: an attempt for a later batch, at a slot reserved for an
\* earlier batch, got neither the teacher nor the classroom of that
\* reservation
EarlierBatchStillBlocks ==
    \E i, j \in DOMAIN attempt_log :
        /\ i < j
        /\ attempt_log[i].assigned
        /\ attempt_log[i].batch_id # attempt_log[j].batch_id
        /\ attempt_log[i].slot_key = attempt_log[j].slot_key
        /\ attempt_log[j].error = ""
        /\ attempt_log[j].teacher_id # attempt_log[i].teacher_id
        /\ attempt_log[j].classroom_id # attempt_log[i].classroom_id
        /\ \E k \in DOMAIN available_teachers :
              available_teachers[k].id = attempt_log[i].teacher_id

\* C20: a successful attempt appends no message; an attempt that fails
\* appends exactly one, the teacher message when no candidate is free
\* (whatever the classrooms), else the classroom message, and the loop goes
\* on with the next slot.
OneMessagePerFailedAttempt ==
    [][IsAttemptStep =>
           /\ LastAttempt.assigned => conflicts' = conflicts
           /\ (~LastAttempt.assigned /\ LastAttempt.error = "") =>
                 /\ Len(conflicts') = Len(conflicts) + 1
                 /\ SubSeq(conflicts', 1, Len(conflicts)) = conflicts
                 /\ conflicts'[Len(conflicts')].text =
                        (IF SomeCandidateFree THEN "No available classroom"
                         ELSE "No available teacher")
                 /\ ~SomeCandidateFree \/ ~SomeClassroomFree
                 /\ pc' = "slots"
                 /\ slot_index' = slot_index + 1
                 /\ result' = result]_vars

\* C20 witness: the last attempt logged the teacher message at a slot where
\* every classroom of a non-empty list is occupied too
TeacherMessageWithNoClassroomFree ==
    /\ pc = "slots"
    /\ attempt_log # << >>
    /\ conflicts # << >>
    /\ classrooms # << >>
    /\ LET a == attempt_log[Len(attempt_log)]
       IN /\ ~a.assigned
          /\ a.slot_index + 1 = slot_index
          /\ conflicts[Len(conflicts)].text = "No available teacher"
          /\ \A i \in DOMAIN classrooms :
                ~classroom_is_free(classrooms[i], time_slots[a.slot_index + 1], schedule_matrix)

\* both requests have been answered
BothReturned == pc \in {"done", "failed"} /\ other.pc \in {"done", "failed"}

\* the messages a call's own attempts and its own abort account for
OwnMessages(call) ==
    Len(SelectSeq(call.attempt_log, LAMBDA a : ~a.assigned /\ a.error = ""))
        + (IF call.pc = "failed" THEN 1 ELSE 0)

\* the keys a call's own reservations put on a teacher or a classroom
OwnTeacherKeys(call, id) ==
    {call.reservations[i].slot_key :
        i \in {j \in DOMAIN call.reservations : call.reservations[j].teacher_id = id}}

OwnClassroomKeys(call, id) ==
    {call.reservations[i].slot_key :
        i \in {j \in DOMAIN call.reservations : call.reservations[j].classroom_id = id}}

\* a call's conflict log and availability matrix hold what the call itself
\* put there and nothing else
OwnStateOnly(call) ==
    call.pc # "idle" =>
        /\ Len(call.conflicts) = OwnMessages(call)
        /\ \A id \in DOMAIN call.schedule_matrix.teacher_schedule :
              call.schedule_matrix.teacher_schedule[id] = OwnTeacherKeys(call, id)
        /\ \A id \in DOMAIN call.schedule_matrix.classroom_schedule :
              call.schedule_matrix.classroom_schedule[id] = OwnClassroomKeys(call, id)

CallsShareNothing ==
    /\ OwnStateOnly(Suspended)
    /\ OwnStateOnly(other)
    /\ (BothReturned /\ overlapped /\ request = other.request) =>
          /\ result = other.result
          /\ reservations = other.reservations

\* C12 witness: two overlapping calls have both reserved the same teacher and
\* classroom at the same slot key, and both have logged conflicts
SameReservationInBothCalls ==
    /\ BothReturned
    /\ overlapped
    /\ \E i \in DOMAIN reservations, j \in DOMAIN other.reservations :
          /\ reservations[i].teacher_id = other.reservations[j].teacher_id
          /\ reservations[i].classroom_id = other.reservations[j].classroom_id
          /\ reservations[i].slot_key = other.reservations[j].slot_key
    /\ conflicts # << >>
    /\ other.conflicts # << >>

\* C14: two calls whose requests differ in break_duration only enumerate the
\* same slots and return the same entries and the same conflicts.
BreakDurationIgnored ==
    (BothReturned /\ request.break_duration # other.request.break_duration) =>
        /\ [request EXCEPT !.break_duration = 0] = [other.request EXCEPT !.break_duration = 0]
        /\ time_slots = other.time_slots
        /\ result = other.result

\* C14 witness: two calls with different break_duration have returned
\* entries for more than one slot
DifferentBreaksAnswered ==
    /\ BothReturned
    /\ request.break_duration # other.request.break_duration
    /\ Len(time_slots) > 1
    /\ Len(reservations) > 1
    /\ result.timetable_slots # << >>

\* the fetched subject record with this id
SubjectById(id) == subjects[CHOOSE k \in DOMAIN subjects : subjects[k].id = id]

\* the roster teachers that list the subject or list nothing, in roster order
QualifyingTeachers(subject_id) ==
    SelectSeq(teachers, LAMBDA t : subject_id \in t.subjects \/ t.subjects = {})

\* the candidates of a subject as the code's rule gives them
CandidatesOf(subject_id) ==
    IF QualifyingTeachers(subject_id) # << >> THEN QualifyingTeachers(subject_id)
    ELSE IF teachers # << >> THEN <<teachers[1]>>
    ELSE << >>

\* what the reservations before the n-th put on a teacher or a classroom
TeacherKeysBefore(n, id) ==
    {reservations[i].slot_key : i \in {j \in 1..(n - 1) : reservations[j].teacher_id = id}}

ClassroomKeysBefore(n, id) ==
    {reservations[i].slot_key : i \in {j \in 1..(n - 1) : reservations[j].classroom_id = id}}

\* the teacher was free for the n-th reservation's slot when it was made
TeacherWasFree(n, teacher) ==
    LET key == reservations[n].slot_key
        before == TeacherKeysBefore(n, teacher.id)
    IN /\ key \notin before
       /\ Cardinality({k \in before : k[1] = key[1]}) < teacher.max_classes_per_day

\* C21: the teacher of every reservation is the earliest candidate of its
\* subject that was free for the slot (key not occupied, fewer keys on the
\* date than the daily cap), and the classroom is the earliest classroom of
\* the roster whose key was not occupied.
FirstFitSelection ==
    \A n \in DOMAIN reservations :
        LET r == reservations[n]
            candidates == CandidatesOf(r.subject_id)
        IN /\ \E p \in DOMAIN candidates :
                 /\ candidates[p].id = r.teacher_id
                 /\ TeacherWasFree(n, candidates[p])
                 /\ \A q \in 1..(p - 1) : ~TeacherWasFree(n, candidates[q])
           /\ \E p \in DOMAIN classrooms :
                 /\ classrooms[p].id = r.classroom_id
                 /\ r.slot_key \notin ClassroomKeysBefore(n, r.classroom_id)
                 /\ \A q \in 1..(p - 1) :
                       r.slot_key \in ClassroomKeysBefore(n, classrooms[q].id)

\* C21 witness: a reservation took the second candidate and the second
\* classroom, the first of each being occupied at the slot, while an earlier
\* reservation had taken the first of two free candidates
SecondChoiceReserved ==
    \E n \in DOMAIN reservations :
        LET r == reservations[n]
            candidates == CandidatesOf(r.subject_id)
        IN /\ Len(candidates) = 2
           /\ candidates[2].id = r.teacher_id
           /\ Len(classrooms) = 2
           /\ classrooms[2].id = r.classroom_id
           /\ \E m \in 1..(n - 1) :
                 /\ reservations[m].teacher_id = candidates[1].id
                 /\ Len(CandidatesOf(reservations[m].subject_id)) = 2

\* C22: when some roster teacher lists the subject or lists nothing, the
\* candidates are exactly those teachers in roster order; when the roster is
\* empty there is no candidate, no attempt is assigned and every message
\* logged by an attempt is the teacher message.
CandidatesAreQualifying ==
    /\ pc = "slots" =>
          LET id == batch_subjects[subject_idx].id
          IN /\ QualifyingTeachers(id) # << >> => available_teachers = QualifyingTeachers(id)
             /\ teachers = << >> => available_teachers = << >>
    /\ (pc \in {"subjects", "slots", "done"} /\ teachers = << >>) =>
          /\ \A i \in DOMAIN attempt_log : ~attempt_log[i].assigned
          /\ Len(conflicts) = Len(attempt_log)
          /\ \A i \in DOMAIN conflicts : conflicts[i].text = "No available teacher"

\* C22 witness: the candidates of the subject are the second roster teacher
\* alone, which lists nothing, the first listing another subject
OnlyUnlistedTeacherQualifies ==
    /\ pc = "slots"
    /\ Len(teachers) = 2
    /\ teachers[2].subjects = {}
    /\ teachers[1].subjects # {}
    /\ available_teachers = <<teachers[2]>>

\* the empty-roster case of C22 is reached as well: attempts were made with
\* no teacher in the roster and classrooms present
EmptyRosterAttempted ==
    /\ pc = "slots"
    /\ teachers = << >>
    /\ classrooms # << >>
    /\ attempt_log # << >>

\* the dates of the request's range that are working days
WorkingDates ==
    {d \in request.start_date[3]..request.end_date[3] :
        WeekdayNames[((d - 1) % 7) + 1] \in request.working_days}

\* the number of dates with a slot: every working date, if the window holds
\* an hour
DistinctDates ==
    IF ParseTime(request.start_time) + 60 <= ParseTime(request.end_time)
    THEN Cardinality(WorkingDates) ELSE 0

WeeksOfRequest == IF DistinctDates \div 7 > 1 THEN DistinctDates \div 7 ELSE 1

\* C23: the number of classes required of a subject is its classes_per_week
\* times max(1, D div 7), D the number of distinct dates with a slot, in the
\* requirements of the batch being processed and in every subject loop of
\* every batch of the call.
RequiredClassCount ==
    /\ pc \in {"subjects", "slots"} =>
          \A id \in DOMAIN subject_requirements :
              subject_requirements[id] = SubjectById(id).classes_per_week * WeeksOfRequest
    /\ \A k \in DOMAIN subject_log :
          subject_log[k].needed =
              SubjectById(subject_log[k].subject_id).classes_per_week * WeeksOfRequest
    /\ pc = "slots" =>
          classes_needed = batch_subjects[subject_idx].classes_per_week * WeeksOfRequest

\* C23 witness: over fourteen dates a subject of the second batch requires
\* twice its classes_per_week
TwoWeeksRequired ==
    /\ pc = "slots"
    /\ batch_idx = 2
    /\ DistinctDates = 14
    /\ classes_needed = 2 * batch_subjects[subject_idx].classes_per_week

\* the thirteen-date case of C23 is reached as well: one week is counted
ThirteenDatesOneWeek ==
    /\ pc = "slots"
    /\ DistinctDates = 13
    /\ classes_needed = batch_subjects[subject_idx].classes_per_week

\* C24: the slot sequence is strictly increasing by date and then start
\* time, so no two of its slots have the same key.
SlotsStrictlyIncreasing ==
    pc = "slotted" =>
        /\ \A i \in 1..(Len(time_slots) - 1) :
              \/ time_slots[i].date[3] < time_slots[i + 1].date[3]
              \/ /\ time_slots[i].date = time_slots[i + 1].date
                 /\ ParseTime(time_slots[i].start_time) < ParseTime(time_slots[i + 1].start_time)
        /\ \A i, j \in DOMAIN time_slots :
              i # j => slot_key_of(time_slots[i]) # slot_key_of(time_slots[j])

\* C24 witness: slots on two dates, two of them on one date
TwoDatesTwoSlots ==
    /\ pc = "slotted"
    /\ \E i, j \in DOMAIN time_slots : time_slots[i].date # time_slots[j].date
    /\ \E i, j \in DOMAIN time_slots :
          i # j /\ time_slots[i].date = time_slots[j].date

\* a time of day in minutes, as the "HH:MM" pair
ClockOf(minutes) == <<minutes \div 60, minutes % 60>>

\* the request of the spec's example
ExampleRequest == RequestOf(<<"b1">>, 15, 16, {"Monday"}, <<9, 0>>, <<11, 0>>)

\* C25: on every working date of the range there is a slot from
\* start + k hours to start + (k + 1) hours for every k with
\* start + (k + 1) hours <= end; the first slot of a date starts at the
\* window start and each next one where the one before ended; the example
\* request gives the two Monday slots 09:00-10:00 and 10:00-11:00.
HourlySlotsEmitted ==
    pc = "slotted" =>
        /\ \A d \in WorkingDates, k \in 0..23 :
              ParseTime(request.start_time) + (k + 1) * 60 <= ParseTime(request.end_time) =>
                 \E i \in DOMAIN time_slots :
                    /\ time_slots[i].date = <<2024, 1, d>>
                    /\ time_slots[i].day = WeekdayNames[((d - 1) % 7) + 1]
                    /\ time_slots[i].start_time = ClockOf(ParseTime(request.start_time) + k * 60)
                    /\ time_slots[i].end_time =
                          ClockOf(ParseTime(request.start_time) + (k + 1) * 60)
        /\ \A i \in DOMAIN time_slots :
              IF i > 1 /\ time_slots[i - 1].date = time_slots[i].date
              THEN time_slots[i].start_time = time_slots[i - 1].end_time
              ELSE time_slots[i].start_time = request.start_time
        /\ request = ExampleRequest =>
              time_slots = << [date |-> <<2024, 1, 15>>, day |-> "Monday",
                               start_time |-> <<9, 0>>, end_time |-> <<10, 0>>],
                              [date |-> <<2024, 1, 15>>, day |-> "Monday",
                               start_time |-> <<10, 0>>, end_time |-> <<11, 0>>] >>

\* C25 witness: the slots of the example request have been enumerated
ExampleEnumerated ==
    /\ pc = "slotted"
    /\ request = ExampleRequest
    /\ Len(time_slots) = 2

\* C26: within a batch no slot is attempted twice, no two reservations have
\* the same slot key, and no section has two returned rows at the same day
\* and start time (the dates of these ranges fall on different weekdays).
OneAttemptPerSlotAndBatch ==
    /\ \A i, j \in DOMAIN attempt_log :
          (i # j /\ attempt_log[i].batch_id = attempt_log[j].batch_id)
              => attempt_log[i].slot_index # attempt_log[j].slot_index
    /\ \A i, j \in DOMAIN reservations :
          (i # j /\ reservations[i].batch_id = reservations[j].batch_id)
              => reservations[i].slot_key # reservations[j].slot_key
    /\ pc = "done" =>
          \A i, j \in DOMAIN result.timetable_slots :
              LET a == result.timetable_slots[i]
                  b == result.timetable_slots[j]
              IN (i # j /\ a.batch_id = b.batch_id /\ a.section = b.section)
                    => <<a.day, a.start_time>> # <<b.day, b.start_time>>

\* the section labels of the batch are all different
DistinctLabels(batch_id) ==
    LET sections == Get(batches[PositionOfBatch(batch_id)], "sections", <<"A">>)
    IN \A i, j \in DOMAIN sections : i # j => sections[i] # sections[j]

\* C26, for section labels that are distinct within their batch: within a
\* batch no slot is attempted twice and no two reservations have the same
\* slot key, and a section of a batch whose labels are all different has no
\* two returned rows at the same day and start time.
OneRowPerSlotAndDistinctSection ==
    /\ \A i, j \in DOMAIN attempt_log :
          (i # j /\ attempt_log[i].batch_id = attempt_log[j].batch_id)
              => attempt_log[i].slot_index # attempt_log[j].slot_index
    /\ \A i, j \in DOMAIN reservations :
          (i # j /\ reservations[i].batch_id = reservations[j].batch_id)
              => reservations[i].slot_key # reservations[j].slot_key
    /\ pc = "done" =>
          \A i, j \in DOMAIN result.timetable_slots :
              LET a == result.timetable_slots[i]
                  b == result.timetable_slots[j]
              IN (i # j /\ a.batch_id = b.batch_id /\ a.section = b.section
                        /\ DistinctLabels(a.batch_id))
                    => <<a.day, a.start_time>> # <<b.day, b.start_time>>

\* C26 witness: a call returned rows of one section for two subjects, at
\* different slots
SectionHasTwoSubjects ==
    /\ pc = "done"
    /\ \E i, j \in DOMAIN result.timetable_slots :
          /\ result.timetable_slots[i].batch_id = result.timetable_slots[j].batch_id
          /\ result.timetable_slots[i].section = result.timetable_slots[j].section
          /\ result.timetable_slots[i].subject_id # result.timetable_slots[j].subject_id

\* the subject loop failed at every attempt it made, having something to assign
AllAttemptsFailed(k) ==
    /\ subject_log[k].finished
    /\ subject_log[k].needed >= 1
    /\ \A i \in AttemptsOfPass(subject_log[k].batch_id, subject_log[k].subject_id) :
          ~attempt_log[i].assigned

\* C27: a subject whose attempts all failed has used the slot sequence up to
\* its end, and every later subject of the same batch makes no attempt and
\* has no row in the batch's list or in the pair returned.
FailingSubjectStarvesTheRest ==
    \A k \in DOMAIN subject_log :
        AllAttemptsFailed(k) =>
            /\ subject_log[k].end_index = Len(time_slots)
            /\ \A n \in DOMAIN subject_log :
                  (n > k /\ subject_log[n].batch_id = subject_log[k].batch_id) =>
                     /\ AttemptsOfPass(subject_log[n].batch_id, subject_log[n].subject_id) = {}
                     /\ \A i \in DOMAIN result.timetable_slots :
                           ~(/\ result.timetable_slots[i].batch_id = subject_log[n].batch_id
                             /\ result.timetable_slots[i].subject_id = subject_log[n].subject_id)
                     /\ (batch_idx \in DOMAIN batches
                         /\ subject_log[n].batch_id = batches[batch_idx].id) =>
                           \A i \in DOMAIN batch_slots :
                               batch_slots[i].subject_id # subject_log[n].subject_id

\* C27 witness: a subject failed at each of its two or more attempts and the
\* next subject of the batch finished without an attempt
LaterSubjectStarved ==
    \E k, n \in DOMAIN subject_log :
        /\ n > k
        /\ AllAttemptsFailed(k)
        /\ subject_log[k].end_index - subject_log[k].start_index >= 2
        /\ subject_log[n].batch_id = subject_log[k].batch_id
        /\ subject_log[n].finished
        /\ subject_log[n].needed >= 1

\* the roster teacher with this id
TeacherById(id) == teachers[CHOOSE k \in DOMAIN teachers : teachers[k].id = id]

\* the teacher was a candidate for the subject
WasCandidate(teacher_id, subject_id) ==
    LET teacher == TeacherById(teacher_id)
    IN \/ subject_id \in teacher.subjects
       \/ teacher.subjects = {}
       \/ /\ teacher_id = teachers[1].id
          /\ \A k \in DOMAIN teachers :
                subject_id \notin teachers[k].subjects /\ teachers[k].subjects # {}

\* C28: the teacher of every reservation and of every returned row lists the
\* subject, or lists nothing, or is the first roster teacher of a roster in
\* which nobody qualifies for the subject.
TeacherWasCandidate ==
    /\ \A i \in DOMAIN reservations :
          WasCandidate(reservations[i].teacher_id, reservations[i].subject_id)
    /\ \A i \in DOMAIN batch_slots :
          WasCandidate(batch_slots[i].teacher_id, batch_slots[i].subject_id)
    /\ \A i \in DOMAIN result.timetable_slots :
          WasCandidate(result.timetable_slots[i].teacher_id,
                       result.timetable_slots[i].subject_id)

\* C28 witness: a call returned a row whose teacher lists the subject and a
\* row whose teacher is the fallback, with a second teacher in the roster
ListedAndFallbackRows ==
    /\ pc = "done"
    /\ Len(teachers) = 2
    /\ \E i, j \in DOMAIN result.timetable_slots :
          LET a == result.timetable_slots[i]
              b == result.timetable_slots[j]
          IN /\ a.subject_id \in TeacherById(a.teacher_id).subjects
             /\ b.subject_id \notin TeacherById(b.teacher_id).subjects
             /\ TeacherById(b.teacher_id).subjects # {}

\* every weekday name of the slot sequence belongs to one date
OneDatePerWeekday ==
    \A i, j \in DOMAIN time_slots :
        time_slots[i].day = time_slots[j].day => time_slots[i].date = time_slots[j].date

\* C29: when every weekday name of the slot sequence belongs to one date,
\* two returned rows with the same teacher, day and start time have the same
\* batch, subject and classroom, and two rows with the same classroom, day
\* and start time have the same batch, subject and teacher.
RowsOfOneReservation ==
    (pc = "done" /\ OneDatePerWeekday) =>
        \A i, j \in DOMAIN result.timetable_slots :
            LET a == result.timetable_slots[i]
                b == result.timetable_slots[j]
            IN /\ (a.teacher_id = b.teacher_id /\ a.day = b.day /\ a.start_time = b.start_time)
                     => (/\ a.batch_id = b.batch_id
                         /\ a.subject_id = b.subject_id
                         /\ a.classroom_id = b.classroom_id)
               /\ (a.classroom_id = b.classroom_id /\ a.day = b.day
                   /\ a.start_time = b.start_time)
                     => (/\ a.batch_id = b.batch_id
                         /\ a.subject_id = b.subject_id
                         /\ a.teacher_id = b.teacher_id)

\* C29 witness: over a range of one week a call returned the two section
\* rows of one reservation and rows of the same teacher for another batch
SameTeacherOnTwoDays ==
    /\ pc = "done"
    /\ OneDatePerWeekday
    /\ \E i, j \in DOMAIN result.timetable_slots :
          /\ i # j
          /\ result.timetable_slots[i].teacher_id = result.timetable_slots[j].teacher_id
          /\ result.timetable_slots[i].day = result.timetable_slots[j].day
          /\ result.timetable_slots[i].section # result.timetable_slots[j].section
    /\ \E i, j \in DOMAIN result.timetable_slots :
          /\ result.timetable_slots[i].teacher_id = result.timetable_slots[j].teacher_id
          /\ result.timetable_slots[i].batch_id # result.timetable_slots[j].batch_id

\* the case outside C29's condition is reached as well: over two weeks two
\* rows of different batches have the same teacher, day and start time
SameWeekdayTwoDates ==
    /\ pc = "done"
    /\ ~OneDatePerWeekday
    /\ \E i, j \in DOMAIN result.timetable_slots :
          /\ result.timetable_slots[i].teacher_id = result.timetable_slots[j].teacher_id
          /\ result.timetable_slots[i].day = result.timetable_slots[j].day
          /\ result.timetable_slots[i].start_time = result.timetable_slots[j].start_time
          /\ result.timetable_slots[i].batch_id # result.timetable_slots[j].batch_id

====
